---- MODULE Spec2Model ----
(***************************************************************************)
(* ColorDir (c.cpp, hdir.h): a directory lister.  One run of the program   *)
(* is modelled from main(): parseTargets, the flag loop of main, the       *)
(* recursive listDirectoryContents and displaySummary.  Strings are        *)
(* sequences of one-character strings so that arg[0], find('*'), tolower   *)
(* and fnmatch can be computed as the code computes them.                  *)
(***************************************************************************)
EXTENDS Integers, Sequences, FiniteSets, TLC

VARIABLES
    argv,            \* argv[1..argc-1]
    fs,              \* the file system the run sees: node -> [kind, tgt]
    pc,              \* position in main
    i,               \* loop index of parseTargets
    dir,             \* parseTargets: dir
    pattern,         \* parseTargets: pattern
    flags,           \* parseTargets: flags
    screenHeight,    \* main: screenHeight
    recursive, showTotalSize, forceList, forceWide, screenPause,
    totalFiles, totalDirs, totalSizeShown,
    stack,           \* active calls of listDirectoryContents, innermost last
    out,             \* what was written to standard output, in order
    keysRead,        \* number of calls of getKeyStroke so far
    exitStatus,      \* "running", "0", "1" (exit status), "SIGABRT" or "SIGFPE"
    callArg, callRet \* a function applied on its own: its argument, what it returned

vars == <<argv, fs, pc, i, dir, pattern, flags, screenHeight, recursive,
          showTotalSize, forceList, forceWide, screenPause, totalFiles,
          totalDirs, totalSizeShown, stack, out, keysRead, exitStatus,
          callArg, callRet>>

-----------------------------------------------------------------------------
(* Bounds of the model *)

\* longest argument list (argc - 1)
MaxArgs == 3
\* largest ws_row the terminal reports (0 = detection failed)
MaxRows == 3
\* symbolic links the kernel follows in one path resolution before ELOOP
MaxSymlinks == 2

(* Program constants *)

DefaultHeight == 24
DefaultWidth == 80
columnWidth == 17

-----------------------------------------------------------------------------
(* Characters and strings *)

\* ASCII code of the characters that occur in the modelled names
Ord(c) ==
    CASE c = "*" -> 42 [] c = "-" -> 45 [] c = "." -> 46 [] c = "?" -> 63
      [] c = "A" -> 65 [] c = "B" -> 66 [] c = "H" -> 72 [] c = "S" -> 83
      [] c = "a" -> 97 [] c = "b" -> 98 [] c = "d" -> 100 [] c = "e" -> 101
      [] c = "h" -> 104 [] c = "l" -> 108 [] c = "n" -> 110 [] c = "p" -> 112
      [] c = "r" -> 114 [] c = "s" -> 115 [] c = "t" -> 116 [] c = "w" -> 119 [] c = "x" -> 120
      [] c = "z" -> 122
      [] OTHER -> 0

\* ::tolower on one character
tolower(c) ==
    CASE c = "A" -> "a" [] c = "B" -> "b" [] c = "H" -> "h" [] c = "S" -> "s"
      [] OTHER -> c

\* toLower: std::transform(..., ::tolower)
toLower(str) == [k \in 1..Len(str) |-> tolower(str[k])]

\* std::string operator< : lexicographic on the bytes, a proper prefix is less
RECURSIVE StrLess(_, _)
StrLess(a, b) ==
    IF b = <<>> THEN FALSE
    ELSE IF a = <<>> THEN TRUE
    ELSE IF Ord(Head(a)) # Ord(Head(b)) THEN Ord(Head(a)) < Ord(Head(b))
    ELSE StrLess(Tail(a), Tail(b))

\* arg.find(ch) != std::string::npos
Contains(str, ch) == \E k \in 1..Len(str) : str[k] = ch

\* fnmatch(pattern, name, FNM_PATHNAME) == 0 for patterns made of literals,
\* '*' and '?'.  Base names hold no '/', so FNM_PATHNAME changes nothing,
\* and FNM_PERIOD is not set, so a leading '.' is matched by a wildcard.
RECURSIVE fnmatch(_, _)
fnmatch(p, s) ==
    IF p = <<>> THEN s = <<>>
    ELSE IF Head(p) = "*"
         THEN fnmatch(Tail(p), s) \/ (s # <<>> /\ fnmatch(p, Tail(s)))
    ELSE /\ s # <<>>
         /\ (Head(p) = "?" \/ Head(p) = Head(s))
         /\ fnmatch(Tail(p), Tail(s))

-----------------------------------------------------------------------------
(* Command-line tokens *)

TokR == <<"-", "r">>
TokT == <<"-", "t">>
TokL == <<"-", "l">>
TokW == <<"-", "w">>
TokP == <<"-", "p">>
TokH == <<"-", "h">>
TokHelp == <<"-", "-", "h", "e", "l", "p">>
TokZ == <<"-", "z">>
TokDot == <<".">>
TokD == <<"d">>
TokNx == <<"n", "x">>
TokAb == <<"a", "b">>
TokStar == <<"*">>
TokAStar == <<"a", "*">>

LongRecursive == <<"-", "-", "r", "e", "c", "u", "r", "s", "i", "v", "e">>
LongTotal == <<"-", "-", "t", "o", "t", "a", "l">>
LongList == <<"-", "-", "l", "i", "s", "t">>
LongWide == <<"-", "-", "w", "i", "d", "e">>
LongPause == <<"-", "-", "p", "a", "u", "s", "e">>

\* the arguments of the argument lists built freely; -t and -p, which
\* parseTargets treats like -r, come with the lists of ListArgs
Tokens == {TokR, TokL, TokW, TokH, TokHelp, TokZ,
           TokDot, TokD, TokNx, TokAb, TokStar, TokAStar}

IsRecursiveFlag(a) == a = TokR \/ a = LongRecursive
IsTotalFlag(a) == a = TokT \/ a = LongTotal
IsListFlag(a) == a = TokL \/ a = LongList
IsWideFlag(a) == a = TokW \/ a = LongWide
IsPauseFlag(a) == a = TokP \/ a = LongPause
IsHelpFlag(a) == a = TokH \/ a = TokHelp

\* KnownFlag with the final else of the flag chain lost: every argument
\* that starts with '-' is taken as a flag
KnownFlag_AcceptAny(a) == TRUE

\* the six flags parseTargets pushes onto flags
KnownFlag(a) ==
    \/ IsRecursiveFlag(a) \/ IsTotalFlag(a) \/ IsListFlag(a)
    \/ IsWideFlag(a) \/ IsPauseFlag(a) \/ IsHelpFlag(a)

\* arg[0] == '-'  (arg[0] of an empty std::string is '\0')
StartsWithDash(a) == a # <<>> /\ a[1] = "-"

\* arg.find('*') != npos || arg.find('?') != npos
HasWildcard(a) == Contains(a, "*") \/ Contains(a, "?")

-----------------------------------------------------------------------------
(* The file system *)

\* 0 is the working directory; the tree below it has a fixed shape and
\* fixed names, and the type of three of its entries varies from run to run:
\*     .            0
\*     |- d         1   directory
\*     |  |- a.txt  3   regular file
\*     |  `- B      4   absent, directory, link to a.txt, link to d
\*     |- ab        2   file, directory, unreadable directory, link to
\*     |  `- a      6       d/a.txt, dangling link, fifo
\*     |- Ab        5   regular file
\*     `- b.SH      7   regular file
Nodes == 0..7
NoNode == -1

Name(n) ==
    CASE n = 0 -> <<".">>
      [] n = 1 -> <<"d">>
      [] n = 2 -> <<"a", "b">>
      [] n = 3 -> <<"a", ".", "t", "x", "t">>
      [] n = 4 -> <<"B">>
      [] n = 5 -> <<"A", "b">>
      [] n = 6 -> <<"a">>
      [] n = 7 -> <<"b", ".", "S", "H">>

Parent(n) ==
    CASE n \in {1, 2, 5, 7} -> 0
      [] n \in {3, 4} -> 1
      [] n = 6 -> 2
      [] OTHER -> NoNode

\* st_size of the regular files: distinct powers of four, so that a sum of
\* sizes tells which files were added and how often
Size(n) ==
    CASE n = 3 -> 1 [] n = 5 -> 4 [] n = 6 -> 16 [] n = 2 -> 64 [] n = 7 -> 256
      [] OTHER -> 0

Entry(kind, tgt) == [kind |-> kind, tgt |-> tgt]

AbKinds == {Entry("file", NoNode), Entry("dir", NoNode), Entry("xdir", NoNode),
            Entry("link", 3), Entry("link", NoNode), Entry("fifo", NoNode)}
BKinds == {Entry("none", NoNode), Entry("dir", NoNode), Entry("link", 3),
           Entry("link", 1)}

MakeFs(ab, b) ==
    [n \in Nodes |->
        CASE n \in {0, 1} -> Entry("dir", NoNode)
          [] n = 2 -> ab
          [] n = 4 -> b
          [] OTHER -> Entry("file", NoNode)]

FsSet == {MakeFs(ab, b) : ab \in AbKinds, b \in BKinds}
BaseFs == MakeFs(Entry("file", NoNode), Entry("dir", NoNode))

\* the entries readdir reports for directory n
Children(f, n) == {c \in Nodes : Parent(c) = n /\ f[c].kind # "none"}

IsLink(f, c) == f[c].kind = "link"

\* the node a path ending in entry c names once a final link is followed
Resolve(f, c) == IF IsLink(f, c) THEN f[c].tgt ELSE c

\* number of symbolic links followed by stat() of entry c, reached through
\* a directory path that already holds `links` links
Follows(f, c, links) == links + (IF IsLink(f, c) THEN 1 ELSE 0)

\* file type that status(path) reports (links followed); "not_found" for a
\* dangling link, "none" when stat fails with ELOOP
StatType(f, c, links) ==
    IF IsLink(f, c) /\ Follows(f, c, links) > MaxSymlinks THEN "none"
    ELSE LET r == Resolve(f, c) IN
         IF r = NoNode \/ f[r].kind = "none" THEN "not_found"
         ELSE IF f[r].kind \in {"dir", "xdir"} THEN "directory"
         ELSE IF f[r].kind = "file" THEN "regular"
         ELSE "fifo"

\* the node a directory argument names, relative to the working directory
ResolveArg(f, a) ==
    IF a = <<".">> THEN 0
    ELSE IF \E c \in Children(f, 0) : Name(c) = a
         THEN CHOOSE c \in Children(f, 0) : Name(c) = a
    ELSE NoNode

\* directoryExists without the is_directory test
directoryExists_ExistsOnly(f, a) ==
    LET c == ResolveArg(f, a) IN
    /\ c # NoNode
    /\ StatType(f, c, 0) \notin {"not_found", "none"}

\* directoryExists: exists(path) && is_directory(path)
directoryExists(f, a) ==
    LET c == ResolveArg(f, a) IN
    /\ c # NoNode
    /\ StatType(f, c, 0) \notin {"not_found", "none"}
    /\ StatType(f, c, 0) = "directory"

\* the real (not linked) directories at and below directory node n that
\* recursive_directory_iterator(skip_permission_denied) opens: a link to a
\* directory is not followed, an unreadable directory yields no entries
RECURSIVE Walked(_, _)
Walked(f, n) ==
    IF f[n].kind # "dir" THEN {}
    ELSE {n} \cup UNION {Walked(f, c) : c \in {x \in Children(f, n) : f[x].kind = "dir"}}

\* the entries recursive_directory_iterator yields below directory node n
WalkEntries(f, n) == UNION {Children(f, m) : m \in Walked(f, n)}

RECURSIVE SumSizes(_, _, _)
SumSizes(f, S, links) ==
    IF S = {} THEN 0
    ELSE LET c == CHOOSE x \in S : TRUE IN
         (IF StatType(f, c, links) = "regular" THEN Size(Resolve(f, c)) ELSE 0)
           + SumSizes(f, S \ {c}, links)

\* entry.is_regular_file() inside calculateDirectorySize throws when stat fails
calcThrows(f, n, links) ==
    \E c \in WalkEntries(f, n) : StatType(f, c, links) = "none"

\* calculateDirectorySize(path): sum of file_size() over the entries below
\* path for which is_regular_file() holds (a link to a regular file included)
calculateDirectorySize(f, n, links) == SumSizes(f, WalkEntries(f, n), links)

-----------------------------------------------------------------------------
(* Classification and ordering *)

Programming == 0
Text == 1
Video == 2
Picture == 3
Hidden == 4
Executable == 5
Compressed == 6
Other == 7

\* members of the extension tables of categorizeFile that the modelled
\* names can produce, with ".sh", which is in two tables
programmingExtensions == {<<".", "h">>, <<".", "s", "h">>, <<".", "d">>}
textExtensions == {<<".", "t", "x", "t">>, <<".", "s", "h">>}
videoExtensions == {<<".", "t", "s">>}
pictureExtensions == {<<".", "x", "p", "m">>}
compressedExtensions == {<<".", "x", "z">>}

\* owner-execute bit of the regular files
OwnerExec(n) == n = 6

\* position of the last '.' of a name, 0 when there is none
LastDot(str) ==
    IF Contains(str, ".")
    THEN CHOOSE k \in 1..Len(str) :
            str[k] = "." /\ \A j \in (k + 1)..Len(str) : str[j] # "."
    ELSE 0

\* path::extension(): from the last '.', empty when the name has no '.',
\* starts with its only '.', or is "." or ".."
extension(str) ==
    IF LastDot(str) <= 1 \/ str = <<".", ".">> THEN <<>>
    ELSE SubSeq(str, LastDot(str), Len(str))

\* Categorize with the text table looked up before the programming table
Categorize_TextFirst(name, isRegular, ownerExec) ==
    LET ext == toLower(extension(name)) IN
    IF isRegular
    THEN IF ext \in textExtensions THEN Text
         ELSE IF ext \in programmingExtensions THEN Programming
         ELSE IF ext \in videoExtensions THEN Video
         ELSE IF ext \in pictureExtensions THEN Picture
         ELSE IF ext \in compressedExtensions THEN Compressed
         ELSE IF ownerExec THEN Executable
         ELSE Other
    ELSE Other

\* the body of categorizeFile, on what it reads of the entry: the file name
\* of its path, is_regular_file(), and the owner-execute bit of its status
Categorize(name, isRegular, ownerExec) ==
    LET ext == toLower(extension(name)) IN
    IF isRegular
    THEN IF ext \in programmingExtensions THEN Programming
         ELSE IF ext \in textExtensions THEN Text
         ELSE IF ext \in videoExtensions THEN Video
         ELSE IF ext \in pictureExtensions THEN Picture
         ELSE IF ext \in compressedExtensions THEN Compressed
         ELSE IF ownerExec THEN Executable
         ELSE Other
    ELSE Other

categorizeFile(f, c, links) ==
    Categorize(Name(c), StatType(f, c, links) = "regular", OwnerExec(Resolve(f, c)))

\* comparator of the first std::sort (directories)
DirLess(a, b) == StrLess(toLower(Name(a)), toLower(Name(b)))

\* FileLess with the category comparison lost
FileLess_NameOnly(f, links, a, b) ==
    StrLess(toLower(Name(a)), toLower(Name(b)))

\* comparator of the second std::sort (files)
FileLess(f, links, a, b) ==
    LET typeA == categorizeFile(f, a, links)
        typeB == categorizeFile(f, b, links) IN
    IF typeA # typeB THEN typeA < typeB
    ELSE StrLess(toLower(Name(a)), toLower(Name(b)))

Perms(S) ==
    {s \in [1..Cardinality(S) -> S] : \A x \in S : \E k \in DOMAIN s : s[k] = x}

\* SortedDirs without the sort: the directories in readdir order
SortedDirs_Unsorted(S) == Perms(S)

\* what std::sort may leave: any arrangement of the elements in which no
\* later element compares less than an earlier one (equivalent elements in
\* either order, whatever order readdir produced them in)
SortedDirs(S) ==
    {s \in Perms(S) :
        \A a, b \in DOMAIN s : a < b => ~DirLess(s[b], s[a])}

SortedFiles(f, links, S) ==
    {s \in Perms(S) :
        \A a, b \in DOMAIN s : a < b => ~FileLess(f, links, s[b], s[a])}

-----------------------------------------------------------------------------
(* One level of listDirectoryContents *)

\* entries that pass the pattern test of the enumeration loop
Admitted(f, n, pat) ==
    {c \in Children(f, n) : ~(pat # <<>> /\ ~fnmatch(pat, Name(c)))}

\* entry.is_directory()
is_directory(f, c, links) == StatType(f, c, links) = "directory"

\* LevelDirs with the pattern test lost: every directory is kept
LevelDirs_AllDirs(f, n, pat, links) ==
    {c \in Children(f, n) : is_directory(f, c, links)}

LevelDirs(f, n, pat, links) ==
    {c \in Admitted(f, n, pat) : is_directory(f, c, links)}

\* LevelFiles with the pattern test lost
LevelFiles_Unfiltered(f, n, pat, links) ==
    {c \in Children(f, n) : ~is_directory(f, c, links)}

LevelFiles(f, n, pat, links) ==
    {c \in Admitted(f, n, pat) : ~is_directory(f, c, links)}

\* showTotalSize && !recursive
DirTotals(show, rec) == show /\ ~rec

\* the uncaught filesystem_error of one level: the directory cannot be
\* opened, or stat of an admitted entry fails (ELOOP), or file_size() is
\* asked of what is not a regular file, or the directory total throws
LevelThrows(f, n, pat, links, show, rec) ==
    \/ f[n].kind # "dir"
    \/ \E c \in Admitted(f, n, pat) : StatType(f, c, links) = "none"
    \/ \E c \in LevelFiles(f, n, pat, links) : StatType(f, c, links) # "regular"
    \/ /\ DirTotals(show, rec)
       /\ \E c \in LevelDirs(f, n, pat, links) :
              calcThrows(f, Resolve(f, c), Follows(f, c, links))

RECURSIVE SumFileSizes(_, _)
SumFileSizes(f, S) ==
    IF S = {} THEN 0
    ELSE LET c == CHOOSE x \in S : TRUE IN
         Size(Resolve(f, c)) + SumFileSizes(f, S \ {c})

RECURSIVE SumDirTotals(_, _, _)
SumDirTotals(f, S, links) ==
    IF S = {} THEN 0
    ELSE LET c == CHOOSE x \in S : TRUE IN
         calculateDirectorySize(f, Resolve(f, c), Follows(f, c, links))
           + SumDirTotals(f, S \ {c}, links)

\* what the enumeration loop adds to totalSizeShown
LevelSize(f, n, pat, links, show, rec) ==
    SumFileSizes(f, LevelFiles(f, n, pat, links))
      + (IF DirTotals(show, rec)
         THEN SumDirTotals(f, LevelDirs(f, n, pat, links), links)
         ELSE 0)

\* conversion of an int to size_t (64 bits): a negative x becomes 2^64 + x,
\* kept as the pair (wraps, off) standing for wraps * 2^64 + off
ToSizeT(x) == IF x < 0 THEN [wraps |-> 1, off |-> x] ELSE [wraps |-> 0, off |-> x]

SizeTGreater(a, b) ==
    a.wraps > b.wraps \/ (a.wraps = b.wraps /\ a.off > b.off)

\* UseWide with forceWide tested first
UseWide_WideFirst(fList, fWide, numEntries, height) ==
    fWide \/ (~fList /\ SizeTGreater(ToSizeT(numEntries), ToSizeT(height - 3)))

\* !forceList && (forceWide || allEntries.size() > (screenHeight - 3)),
\* the comparison made in size_t
UseWide(fList, fWide, numEntries, height) ==
    ~fList /\ (fWide \/ SizeTGreater(ToSizeT(numEntries), ToSizeT(height - 3)))

\* displayMultiColumn: numColumns for a reported ws_col
NumColumns(wsCol) ==
    LET maxWidth == IF wsCol > 0 THEN wsCol ELSE DefaultWidth IN
    maxWidth \div (columnWidth + 1)

\* GridRows with numRows rounded down
GridRows_FloorRows(entries, numColumns) ==
    LET numEntries == Len(entries)
        numRows == numEntries \div numColumns IN
    [row \in 1..numRows |->
        SubSeq(entries, (row - 1) * numColumns + 1, row * numColumns)]

\* displayMultiColumn: the rows drawn, each the entries of its cells in order
GridRows(entries, numColumns) ==
    LET numEntries == Len(entries)
        numRows == (numEntries + numColumns - 1) \div numColumns IN
    [row \in 1..numRows |->
        LET first == (row - 1) * numColumns
            last == IF first + numColumns < numEntries
                    THEN first + numColumns ELSE numEntries IN
        SubSeq(entries, first + 1, last)]

\* printEntry: one line of the detailed view and the size it reports
DetailLine(f, c, links, showTotal) ==
    [t |-> "detail", entry |-> c,
     size |-> IF StatType(f, c, links) = "regular" THEN Size(Resolve(f, c))
              ELSE IF is_directory(f, c, links) /\ showTotal
                   THEN calculateDirectorySize(f, Resolve(f, c), Follows(f, c, links))
              ELSE 0,
     total |-> is_directory(f, c, links) /\ showTotal]

-----------------------------------------------------------------------------
(* Inputs *)

RECURSIVE SeqsUpTo(_, _)
SeqsUpTo(S, n) ==
    IF n = 0 THEN {<<>>}
    ELSE LET shorter == SeqsUpTo(S, n - 1) IN
         shorter \cup {Append(s, x) : s \in {q \in shorter : Len(q) = n - 1}, x \in S}

\* every argument list of at most MaxArgs tokens
ArgLists == SeqsUpTo(Tokens, MaxArgs)

\* flags in a fixed order, then an optional pattern
FlagSeq(S) ==
    (IF TokR \in S THEN <<TokR>> ELSE <<>>) \o (IF TokT \in S THEN <<TokT>> ELSE <<>>)
      \o (IF TokL \in S THEN <<TokL>> ELSE <<>>) \o (IF TokW \in S THEN <<TokW>> ELSE <<>>)
      \o (IF TokP \in S THEN <<TokP>> ELSE <<>>)

ListArgs ==
    {FlagSeq(S) \o p : S \in {T \in SUBSET {TokR, TokT, TokL, TokW, TokP} :
                                  TokP \in T => T \subseteq {TokL, TokP}},
                       p \in {<<>>, <<TokAStar>>}}

\* a subdirectory of the working directory as the target
TargetArgs == {<<TokAb>>, <<TokD>>, <<TokR, TokD>>}

\* ws_col values ioctl may report to displayMultiColumn (0: detection failed)
WsCols == {0, 17, 54}

\* main, lines 397-400
DetectHeight(wsRow) == IF wsRow > 0 THEN wsRow ELSE DefaultHeight

-----------------------------------------------------------------------------
(* parseTargets *)

NoError == [msg |-> "", arg |-> <<>>]

\* one iteration of the argument loop on (dir, pattern, flags)
ParseStep(st, arg) ==
    IF StartsWithDash(arg)
    THEN IF KnownFlag(arg)
         THEN [st EXCEPT !.flags = Append(st.flags, arg)]
         ELSE [st EXCEPT !.err = [msg |-> "Unknown flag: ", arg |-> arg]]
    ELSE IF HasWildcard(arg)
    THEN IF st.pattern = <<"*">>
         THEN [st EXCEPT !.pattern = arg]
         ELSE [st EXCEPT !.err = [msg |-> "Multiple patterns are not allowed.", arg |-> <<>>]]
    ELSE IF st.dir = <<".">>
         THEN [st EXCEPT !.dir = arg]
         ELSE [st EXCEPT !.err = [msg |-> "Multiple directories are not allowed.", arg |-> <<>>]]

\* showError: print the message, std::exit(1)
showError(err) ==
    /\ out' = Append(out, [t |-> "error", msg |-> err.msg, arg |-> err.arg])
    /\ exitStatus' = "1"
    /\ pc' = "exited"

Init ==
    /\ \/ argv \in ArgLists /\ fs = BaseFs /\ screenHeight = DetectHeight(0)
       \/ /\ argv \in ListArgs
          /\ fs \in FsSet
          /\ \E wsRow \in 0..MaxRows : screenHeight = DetectHeight(wsRow)
       \/ argv \in TargetArgs /\ fs \in FsSet /\ screenHeight = DetectHeight(0)
    /\ pc = "parse"
    /\ i = 1
    /\ dir = <<".">>
    /\ pattern = <<"*">>
    /\ flags = <<>>
    /\ recursive = FALSE /\ showTotalSize = FALSE /\ forceList = FALSE
    /\ forceWide = FALSE /\ screenPause = FALSE
    /\ totalFiles = 0 /\ totalDirs = 0 /\ totalSizeShown = 0
    /\ stack = <<>>
    /\ out = <<>>
    /\ keysRead = 0
    /\ exitStatus = "running"
    /\ callArg = <<>> /\ callRet = <<>>

\* argc == 1: return at once, the directory is not validated
ParseNoArgs ==
    /\ pc = "parse" /\ argv = <<>>
    /\ pc' = "flags"
    /\ UNCHANGED <<argv, fs, i, dir, pattern, flags, screenHeight, recursive,
                   showTotalSize, forceList, forceWide, screenPause, totalFiles,
                   totalDirs, totalSizeShown, stack, out, keysRead, exitStatus>>
    /\ UNCHANGED <<callArg, callRet>>

\* one iteration of for (i = 1; i < argc; ++i)
ParseArg ==
    /\ pc = "parse" /\ i <= Len(argv)
    /\ LET st == ParseStep([dir |-> dir, pattern |-> pattern, flags |-> flags,
                            err |-> NoError], argv[i]) IN
       IF st.err # NoError
       THEN /\ showError(st.err)
            /\ UNCHANGED <<i, dir, pattern, flags>>
       ELSE /\ dir' = st.dir /\ pattern' = st.pattern /\ flags' = st.flags
            /\ i' = i + 1
            /\ UNCHANGED <<pc, out, exitStatus>>
    /\ UNCHANGED <<argv, fs, screenHeight, recursive, showTotalSize, forceList,
                   forceWide, screenPause, totalFiles, totalDirs, totalSizeShown,
                   stack, keysRead>>
    /\ UNCHANGED <<callArg, callRet>>

\* after the loop: if (!directoryExists(dir)) showError(...)
ValidateDir ==
    /\ pc = "parse" /\ argv # <<>> /\ i > Len(argv)
    /\ IF ~directoryExists(fs, dir)
       THEN showError([msg |-> "Directory does not exist: ", arg |-> dir])
       ELSE pc' = "flags" /\ UNCHANGED <<out, exitStatus>>
    /\ UNCHANGED <<argv, fs, i, dir, pattern, flags, screenHeight, recursive,
                   showTotalSize, forceList, forceWide, screenPause, totalFiles,
                   totalDirs, totalSizeShown, stack, keysRead>>
    /\ UNCHANGED <<callArg, callRet>>

-----------------------------------------------------------------------------
(* main *)

NoFeatures ==
    [recursive |-> FALSE, showTotalSize |-> FALSE, forceList |-> FALSE,
     forceWide |-> FALSE, screenPause |-> FALSE, help |-> FALSE]

\* for (const auto& flag : flags): the loop ends at the first help flag
RECURSIVE FlagLoop(_, _)
FlagLoop(fl, st) ==
    IF fl = <<>> THEN st
    ELSE LET flag == Head(fl) IN
         IF IsRecursiveFlag(flag) THEN FlagLoop(Tail(fl), [st EXCEPT !.recursive = TRUE])
         ELSE IF IsTotalFlag(flag) THEN FlagLoop(Tail(fl), [st EXCEPT !.showTotalSize = TRUE])
         ELSE IF IsListFlag(flag) THEN FlagLoop(Tail(fl), [st EXCEPT !.forceList = TRUE])
         ELSE IF IsWideFlag(flag) THEN FlagLoop(Tail(fl), [st EXCEPT !.forceWide = TRUE])
         ELSE IF IsPauseFlag(flag) THEN FlagLoop(Tail(fl), [st EXCEPT !.screenPause = TRUE])
         ELSE IF IsHelpFlag(flag) THEN [st EXCEPT !.help = TRUE]
         ELSE FlagLoop(Tail(fl), st)

\* a call of listDirectoryContents that has not run yet
Call(n, links, path) ==
    [node |-> n, links |-> links, path |-> path, listed |-> FALSE,
     count |-> 0, layout |-> "none", dirs |-> <<>>, k |-> 1]

\* the flag loop of main, then either showAboutScreen and return 0, or the
\* counters are initialised and listDirectoryContents(dir, ...) is called
MainFlags ==
    /\ pc = "flags"
    /\ LET st == FlagLoop(flags, NoFeatures)
           target == ResolveArg(fs, dir) IN
       /\ recursive' = st.recursive
       /\ showTotalSize' = st.showTotalSize
       /\ forceList' = st.forceList
       /\ forceWide' = st.forceWide
       /\ screenPause' = st.screenPause
       /\ IF st.help
          THEN /\ out' = Append(out, [t |-> "help"])
               /\ exitStatus' = "0"
               /\ pc' = "exited"
               /\ UNCHANGED stack
          ELSE /\ pc' = "list"
               /\ stack' = <<Call(Resolve(fs, target), Follows(fs, target, 0), <<target>>)>>
               /\ UNCHANGED <<out, exitStatus>>
    /\ UNCHANGED <<argv, fs, i, dir, pattern, flags, screenHeight, totalFiles,
                   totalDirs, totalSizeShown, keysRead>>
    /\ UNCHANGED <<callArg, callRet>>

-----------------------------------------------------------------------------
(* listDirectoryContents *)

Top == stack[Len(stack)]

SetTop(fr) == [stack EXCEPT ![Len(stack)] = fr]

\* an uncaught exception (std::terminate) or a trap ends the process
Crash(signal) ==
    /\ exitStatus' = signal
    /\ pc' = "exited"

\* the body of one call up to the recursion: enumerate and count, sort,
\* choose the layout and render
ListLevel ==
    /\ pc = "list" /\ ~Top.listed
    /\ LET n == Top.node
           links == Top.links IN
       IF LevelThrows(fs, n, pattern, links, showTotalSize, recursive)
       THEN /\ Crash("SIGABRT")
            /\ UNCHANGED <<totalFiles, totalDirs, totalSizeShown, stack, out>>
       ELSE /\ totalDirs' = totalDirs + Cardinality(LevelDirs(fs, n, pattern, links))
            /\ totalFiles' = totalFiles + Cardinality(LevelFiles(fs, n, pattern, links))
            /\ totalSizeShown' = totalSizeShown
                   + LevelSize(fs, n, pattern, links, showTotalSize, recursive)
            /\ \E directories \in SortedDirs(LevelDirs(fs, n, pattern, links)),
                  files \in SortedFiles(fs, links, LevelFiles(fs, n, pattern, links)) :
                 LET allEntries == directories \o files
                     wide == UseWide(forceList, forceWide, Len(allEntries), screenHeight) IN
                 /\ stack' = SetTop([Top EXCEPT !.listed = TRUE, !.dirs = directories,
                                                !.count = Len(allEntries),
                                                !.layout = IF wide THEN "wide" ELSE "detail"])
                 /\ IF wide
                    THEN \E wsCol \in WsCols :
                           IF NumColumns(wsCol) = 0
                           THEN \* (numEntries + numColumns - 1) / numColumns is an
                                \* integer division by zero: the process traps
                                \* (x86), or the quotient is 0 (AArch64), numRows
                                \* is 0 and nothing is drawn
                                \/ Crash("SIGFPE") /\ UNCHANGED out
                                \/ /\ out' = Append(out,
                                          [t |-> "grid", dir |-> n, wsCol |-> wsCol,
                                           entries |-> allEntries, rows |-> <<>>])
                                   /\ UNCHANGED <<pc, exitStatus>>
                           ELSE /\ out' = Append(out,
                                       [t |-> "grid", dir |-> n, wsCol |-> wsCol,
                                        entries |-> allEntries,
                                        rows |-> GridRows(allEntries, NumColumns(wsCol))])
                                /\ UNCHANGED <<pc, exitStatus>>
                    ELSE /\ out' = out \o
                               [x \in 1..Len(allEntries) |->
                                   DetailLine(fs, allEntries[x], links,
                                              DirTotals(showTotalSize, recursive))]
                         /\ UNCHANGED <<pc, exitStatus>>
    /\ UNCHANGED <<argv, fs, i, dir, pattern, flags, screenHeight, recursive,
                   showTotalSize, forceList, forceWide, screenPause, keysRead>>
    /\ UNCHANGED <<callArg, callRet>>

\* if (recursive) for (dir : directories): header, then the nested call
ListDescend ==
    /\ pc = "list" /\ Top.listed /\ recursive /\ Top.k <= Len(Top.dirs)
    /\ LET d == Top.dirs[Top.k] IN
       /\ out' = Append(out, [t |-> "header", path |-> Append(Top.path, d)])
       /\ stack' = Append(SetTop([Top EXCEPT !.k = Top.k + 1]),
                          Call(Resolve(fs, d), Follows(fs, d, Top.links),
                               Append(Top.path, d)))
    /\ UNCHANGED <<argv, fs, pc, i, dir, pattern, flags, screenHeight, recursive,
                   showTotalSize, forceList, forceWide, screenPause, totalFiles,
                   totalDirs, totalSizeShown, keysRead, exitStatus>>
    /\ UNCHANGED <<callArg, callRet>>

\* the call returns; the outermost call returns to main
ListReturn ==
    /\ pc = "list" /\ Top.listed /\ (~recursive \/ Top.k > Len(Top.dirs))
    /\ stack' = SubSeq(stack, 1, Len(stack) - 1)
    /\ pc' = IF Len(stack) = 1 THEN "summary" ELSE "list"
    /\ UNCHANGED <<argv, fs, i, dir, pattern, flags, screenHeight, recursive,
                   showTotalSize, forceList, forceWide, screenPause, totalFiles,
                   totalDirs, totalSizeShown, out, keysRead, exitStatus>>
    /\ UNCHANGED <<callArg, callRet>>

\* displaySummary, return 0
DisplaySummary ==
    /\ pc = "summary"
    /\ out' = Append(out, [t |-> "summary", files |-> totalFiles,
                           dirs |-> totalDirs, size |-> totalSizeShown])
    /\ exitStatus' = "0"
    /\ pc' = "exited"
    /\ UNCHANGED <<argv, fs, i, dir, pattern, flags, screenHeight, recursive,
                   showTotalSize, forceList, forceWide, screenPause, totalFiles,
                   totalDirs, totalSizeShown, stack, keysRead>>
    /\ UNCHANGED <<callArg, callRet>>

Next ==
    \/ ParseNoArgs
    \/ ParseArg
    \/ ValidateDir
    \/ MainFlags
    \/ ListLevel
    \/ ListDescend
    \/ ListReturn
    \/ DisplaySummary

Spec == Init /\ [][Next]_vars

-----------------------------------------------------------------------------
(* formatSize (hdir.h) *)

\* A uintmax_t (64 bits) is kept as NumDigits digits to the base Radix,
\* least significant first; the last digit is below TopDigitLimit, since
\* 2^64 = 16 * 1024^6.  A double holds MantissaBits significant bits.
Radix == 1024
NumDigits == 7
TopDigitLimit == 16
MantissaBits == 53

RECURSIVE Pow2(_)
Pow2(n) == IF n = 0 THEN 1 ELSE 2 * Pow2(n - 1)

\* number of bits of one digit
RECURSIVE BitLen(_)
BitLen(x) == IF x = 0 THEN 0 ELSE 1 + BitLen(x \div 2)

\* position of the most significant digit that is not 0 (0 for the value 0)
TopPos(d) ==
    IF \A k \in DOMAIN d : d[k] = 0 THEN 0
    ELSE CHOOSE k \in DOMAIN d : d[k] # 0 /\ \A j \in DOMAIN d : j > k => d[j] = 0

BitLength(d) ==
    IF TopPos(d) = 0 THEN 0 ELSE 10 * (TopPos(d) - 1) + BitLen(d[TopPos(d)])

\* d + c * Radix^(k-1); a carry out of the last digit stays in it
RECURSIVE AddAt(_, _, _)
AddAt(d, k, c) ==
    IF c = 0 THEN d
    ELSE IF k = Len(d) THEN [d EXCEPT ![k] = d[k] + c]
    ELSE AddAt([d EXCEPT ![k] = (d[k] + c) % Radix], k + 1, (d[k] + c) \div Radix)

\* ToDouble without the rounding
ToDouble_Exact(d) == d

\* double reducedSize = size: the conversion rounds to MantissaBits
\* significant bits, to nearest, ties to even.  At most 11 bits are dropped,
\* all of them in the two lowest digits.
ToDouble(d) ==
    LET r == BitLength(d) - MantissaBits IN
    IF r <= 0 THEN d
    ELSE LET low == d[1] + Radix * d[2]
             dropped == low % Pow2(r)
             half == Pow2(r - 1)
             keptOdd == (low \div Pow2(r)) % 2 = 1
             up == dropped > half \/ (dropped = half /\ keptOdd)
             kept == (low - dropped) + (IF up THEN Pow2(r) ELSE 0)
             cleared == [d EXCEPT ![1] = 0, ![2] = 0] IN
         AddAt(AddAt(cleared, 1, kept % Radix), 2, kept \div Radix)

\* a double x.d * Radix^(-x.shift): reducedSize >= 1024
AtLeast1024(x) == \E k \in DOMAIN x.d : k > x.shift + 1 /\ x.d[k] # 0

\* while (reducedSize >= 1024) { reducedSize /= 1024; unitIndex++; }
\* (a division of a double by 1024 is exact)
RECURSIVE Reduce(_, _)
Reduce(x, unitIndex) ==
    IF AtLeast1024(x)
    THEN Reduce([x EXCEPT !.shift = x.shift + 1], unitIndex + 1)
    ELSE [reducedSize |-> x, unitIndex |-> unitIndex]

baseUnits == <<"KB", "MB", "GB", "TB", "PB", "EB", "ZB", "YB">>

\* std::string(1, prefix) + "B" for the character with the given code
PrefixedUnit(code) ==
    CASE code = 91 -> "[B" [] code = 92 -> "\\B" [] code = 93 -> "]B" [] OTHER -> "?B"

\* the unit for unitIndex >= 0: baseUnits below index 7, and from index 7
\* on the character 'Z' + (unitIndex - 6) followed by 'B'
UnitOf(unitIndex) ==
    IF unitIndex < 7 THEN baseUnits[unitIndex + 1]
    ELSE PrefixedUnit(90 + (unitIndex - 6))

\* formatSize(size): the unit and the integer part of the number printed
\* (the fraction digits of the text are left out)
formatSize(size) ==
    IF TopPos(size) <= 1 THEN [whole |-> size[1], unit |-> "B"]
    ELSE LET r == Reduce([d |-> ToDouble(size), shift |-> 0], -1) IN
         [whole |-> r.reducedSize.d[r.reducedSize.shift + 1],
          unit |-> UnitOf(r.unitIndex)]

\* size * 1024 in uintmax_t: the product modulo 2^64
Times1024(d) ==
    [k \in 1..NumDigits |->
        IF k = 1 THEN 0
        ELSE IF k = NumDigits THEN d[k - 1] % TopDigitLimit
        ELSE d[k - 1]]

\* the byte count m * 1024^e with the digits below m set to mid, the lowest
\* one to low
MakeSize(e, m, mid, low) ==
    [k \in 1..NumDigits |->
        IF k = e + 1 THEN m
        ELSE IF k > e + 1 THEN 0
        ELSE IF k = 1 THEN low ELSE mid]

\* byte counts at and next to the unit boundaries, all below 2^64
SizeInputs ==
    {MakeSize(e, m, mid, low) :
        e \in 0..(NumDigits - 1), m \in {1, 15, 16, 1023},
        mid \in {0, 1023}, low \in {0, 959, 960, 1023}}

\* the state of a run that has not started, for a function applied on its own
ProgramIdle ==
    /\ argv = <<>> /\ fs = BaseFs /\ screenHeight = DetectHeight(0)
    /\ i = 1 /\ dir = <<".">> /\ pattern = <<"*">> /\ flags = <<>>
    /\ recursive = FALSE /\ showTotalSize = FALSE /\ forceList = FALSE
    /\ forceWide = FALSE /\ screenPause = FALSE
    /\ totalFiles = 0 /\ totalDirs = 0 /\ totalSizeShown = 0
    /\ stack = <<>> /\ out = <<>> /\ keysRead = 0 /\ exitStatus = "running"

program == <<argv, fs, i, dir, pattern, flags, screenHeight, recursive,
             showTotalSize, forceList, forceWide, screenPause, totalFiles,
             totalDirs, totalSizeShown, stack, out, keysRead, exitStatus>>

InitFormat ==
    /\ ProgramIdle
    /\ pc = "formatSize"
    /\ callArg \in {d \in SizeInputs : d[NumDigits] < TopDigitLimit}
    /\ callRet = <<>>

\* formatSize(callArg) is called and returns
CallFormatSize ==
    /\ pc = "formatSize"
    /\ callRet' = Append(callRet, [size |-> callArg, text |-> formatSize(callArg)])
    /\ pc' = "returned"
    /\ UNCHANGED <<program, callArg>>

\* the caller multiplies the count by 1024 and formats it again
MultiplyArg ==
    /\ pc = "returned" /\ Len(callRet) = 1
    /\ callArg' = Times1024(callArg)
    /\ pc' = "formatSize"
    /\ UNCHANGED <<program, callRet>>

NextFormat ==
    \/ CallFormatSize
    \/ MultiplyArg

SpecFormat == InitFormat /\ [][NextFormat]_vars

-----------------------------------------------------------------------------
(* categorizeFile applied on its own *)

\* file names with an extension of each table, of two tables (".sh"), in
\* upper case, after an earlier '.', of no table, and with no extension (a
\* name that starts with its only '.' has none)
EntryNames ==
    {<<"a", ".", "t", "x", "t">>, <<"b", ".", "S", "H">>, <<"a", ".", "H">>,
     <<"x", ".", "t", "s">>, <<"p", ".", "x", "p", "m">>, <<"z", ".", "x", "z">>,
     <<"a", ".", "s", "h", ".", "d">>, <<"a", ".", "b">>, <<"a">>,
     <<".", "s", "h">>}

\* what status() reports for the entry
EntryTypes == {"regular", "directory", "fifo", "not_found"}

EntryInputs ==
    [name : EntryNames, type : EntryTypes, ownerExec : BOOLEAN]

InitClassify ==
    /\ ProgramIdle
    /\ pc = "categorizeFile"
    /\ callArg \in EntryInputs
    /\ callRet = <<>>

\* categorizeFile(callArg) is called and returns
CallCategorizeFile ==
    /\ pc = "categorizeFile"
    /\ callRet' = Append(callRet,
           [entry |-> callArg,
            type |-> Categorize(callArg.name, callArg.type = "regular",
                                callArg.ownerExec)])
    /\ pc' = "returned"
    /\ UNCHANGED <<program, callArg>>

NextClassify == CallCategorizeFile

SpecClassify == InitClassify /\ [][NextClassify]_vars

-----------------------------------------------------------------------------
(* Properties *)

Exited == pc = "exited"

Last(s) == s[Len(s)]

HelpGiven == \E k \in DOMAIN argv : IsHelpFlag(argv[k])
HelpPrinted == \E k \in DOMAIN out : out[k].t = "help"
ErrorPrinted == \E k \in DOMAIN out : out[k].t = "error"
ListingPrinted == \E k \in DOMAIN out : out[k].t \in {"detail", "grid", "header"}
SummaryPrinted == \E k \in DOMAIN out : out[k].t = "summary"

\* positions of argv holding a directory argument / a pattern argument
DirArgs == {k \in DOMAIN argv : ~StartsWithDash(argv[k]) /\ ~HasWildcard(argv[k])}
PatternArgs == {k \in DOMAIN argv : ~StartsWithDash(argv[k]) /\ HasWildcard(argv[k])}

\* positions of argv holding an argument that starts with '-' and is none
\* of the twelve spellings of the six flags
UnknownFlagArgs ==
    {k \in DOMAIN argv :
        /\ StartsWithDash(argv[k])
        /\ argv[k] \notin {TokR, LongRecursive, TokT, LongTotal, TokL, LongList,
                           TokW, LongWide, TokP, LongPause, TokH, TokHelp}}

\* C1: whenever -h or --help is among the arguments, the run ends with the
\* help banner printed and status 0, with no listing and no summary,
\* whatever the other arguments are.
C1_HelpAlwaysWins ==
    (Exited /\ HelpGiven) =>
        (exitStatus = "0" /\ HelpPrinted /\ ~ListingPrinted /\ ~SummaryPrinted)

\* C2: an argument list with a second directory argument or a second
\* pattern argument never gets past parseTargets: it ends in a usage error
\* and status 1, whatever the first one is ("." and "*" included).
C2_SecondPositionalFatal ==
    (Cardinality(DirArgs) >= 2 \/ Cardinality(PatternArgs) >= 2) =>
        /\ pc \in {"parse", "exited"}
        /\ Exited => (exitStatus = "1" /\ ErrorPrinted)

\* lines written by the lister and the summary
RECURSIVE ListingLines(_)
ListingLines(o) ==
    IF o = <<>> THEN 0
    ELSE (CASE Head(o).t = "detail" -> 1
            [] Head(o).t = "grid" -> Len(Head(o).rows)
            [] Head(o).t = "header" -> 2
            [] Head(o).t = "summary" -> 2
            [] OTHER -> 0) + ListingLines(Tail(o))

\* C3: with -p the program waits for one keystroke after each screenful
\* (screenHeight lines) before it prints more, so with k keystrokes read at
\* most (k + 1) * screenHeight lines are out; without -p it never reads a key.
C3_PausePerScreen ==
    /\ screenPause => ListingLines(out) <= (keysRead + 1) * screenHeight
    /\ ~screenPause => keysRead = 0

\* the recursion has printed the header of a subdirectory that cannot be read
UnreadableReached ==
    \E k \in DOMAIN out :
        /\ out[k].t = "header"
        /\ fs[Resolve(fs, Last(out[k].path))].kind = "xdir"

\* C4: a recursive listing that comes to a subdirectory it cannot read does
\* not abort: it ends with the summary printed and status 0.
C4_UnreadableSubdirSkipped ==
    (Exited /\ recursive /\ UnreadableReached) => (exitStatus = "0" /\ SummaryPrinted)

\* the calls of listDirectoryContents on the stack that have rendered
ListedCalls == {k \in DOMAIN stack : stack[k].listed}

\* C5 (as claimed): with -l and -w both given, every listed level is
\* rendered in the multi-column view.
C5_BothFlagsWide ==
    (forceList /\ forceWide) => \A k \in ListedCalls : stack[k].layout = "wide"

\* C5 (amended): with -l and -w both given, every listed level is rendered
\* in the detailed view, whatever its entry count and the screen height.
C5_BothFlagsDetailed ==
    (forceList /\ forceWide) => \A k \in ListedCalls : stack[k].layout = "detail"

\* a level with entries was rendered in a run with -l and -w
C5_Witness ==
    /\ forceList /\ forceWide
    /\ \E k \in ListedCalls : stack[k].count > 0 /\ stack[k].layout = "detail"
    /\ \E k \in DOMAIN out : out[k].t = "detail"

\* C6: with neither -l nor -w, a level of N entries is rendered in the
\* multi-column view exactly when N > screenHeight - 3 in signed integer
\* arithmetic, for every screen height >= 1, and in the detailed view
\* otherwise.
C6_SignedThreshold ==
    (~forceList /\ ~forceWide) =>
        \A k \in ListedCalls :
            (stack[k].layout = "wide") <=> (stack[k].count > screenHeight - 3)

\* whether the fs holds a directory at the path of a directory argument
\* (links followed), read off the file system and not off directoryExists
TargetIsDirectory ==
    LET c == ResolveArg(fs, dir) IN
    /\ c # NoNode
    /\ Resolve(fs, c) # NoNode
    /\ fs[Resolve(fs, c)].kind \in {"dir", "xdir"}

C8_UnknownFlagReported ==
    Exited =>
        \A k \in UnknownFlagArgs :
            /\ exitStatus = "1"
            /\ \E e \in DOMAIN out :
                  /\ out[e].t = "error"
                  /\ out[e].msg = "Unknown flag: " /\ out[e].arg = argv[k]

FirstUnknownFlag == CHOOSE k \in UnknownFlagArgs : \A j \in UnknownFlagArgs : k <= j

\* C8 (amended): an argument list with an unknown flag makes the run end
\* with status 1 and exactly one error message printed: "Unknown flag: "
\* followed by the first unknown flag, unless parseTargets stopped at an
\* argument before it, which it rejected as a second directory or a second
\* pattern and whose message is then the one printed.
C8_UnknownFlagFatal ==
    (Exited /\ UnknownFlagArgs # {}) =>
        /\ exitStatus = "1"
        /\ Len(out) = 1 /\ out[1].t = "error"
        /\ i <= FirstUnknownFlag
        /\ i = FirstUnknownFlag =>
              (out[1].msg = "Unknown flag: " /\ out[1].arg = argv[i])
        /\ i < FirstUnknownFlag =>
              out[1].msg \in {"Multiple directories are not allowed.",
                              "Multiple patterns are not allowed."}

\* an unknown flag that is not the first argument was reported
C8_Witness ==
    /\ Exited /\ exitStatus = "1"
    /\ UnknownFlagArgs # {} /\ FirstUnknownFlag > 1 /\ i = FirstUnknownFlag
    /\ out = <<[t |-> "error", msg |-> "Unknown flag: ", arg |-> argv[i]]>>

\* the base name of entry c matches the pattern of the run
Matches(c) == fnmatch(pattern, Name(c))

\* entry c is a directory or a link to one, read off the file system
IsDirEntry(c) ==
    /\ Resolve(fs, c) # NoNode
    /\ fs[Resolve(fs, c)].kind \in {"dir", "xdir"}

\* size of what entry c names (a link followed)
EntrySize(c) == IF Resolve(fs, c) = NoNode THEN 0 ELSE Size(Resolve(fs, c))

\* the paths of the levels the run has listed or begun to list, in order:
\* the target, then every subdirectory whose header was printed
HeaderPaths(o) ==
    LET h == SelectSeq(o, LAMBDA e : e.t = "header") IN
    [k \in DOMAIN h |-> h[k].path]

LevelPaths == <<<<ResolveArg(fs, dir)>>>> \o HeaderPaths(out)

\* the directory a level path names
LevelNode(p) == Resolve(fs, Last(p))

MatchingDirs(n) == {c \in Children(fs, n) : Matches(c) /\ IsDirEntry(c)}
MatchingFiles(n) == {c \in Children(fs, n) : Matches(c) /\ ~IsDirEntry(c)}

RECURSIVE CountOverLevels(_, _)
CountOverLevels(levels, wantDirs) ==
    IF levels = <<>> THEN 0
    ELSE (IF wantDirs THEN Cardinality(MatchingDirs(LevelNode(Head(levels))))
          ELSE Cardinality(MatchingFiles(LevelNode(Head(levels)))))
           + CountOverLevels(Tail(levels), wantDirs)

RECURSIVE FlattenRows(_)
FlattenRows(rows) ==
    IF rows = <<>> THEN <<>> ELSE Head(rows) \o FlattenRows(Tail(rows))

\* the entries drawn, in order (one per detail line or grid cell)
RECURSIVE Rendered(_)
Rendered(o) ==
    IF o = <<>> THEN <<>>
    ELSE (CASE Head(o).t = "detail" -> <<Head(o).entry>>
            [] Head(o).t = "grid" -> FlattenRows(Head(o).rows)
            [] OTHER -> <<>>) \o Rendered(Tail(o))

\* C9: when the outermost listDirectoryContents has returned, totalFiles
\* is the number of matching non-directory entries and totalDirs the number
\* of matching directory entries, summed over the levels that were listed;
\* every entry drawn matches the pattern, and no more entries were drawn
\* than were counted.
C9_CountersMatchListing ==
    pc = "summary" =>
        /\ totalFiles = CountOverLevels(LevelPaths, FALSE)
        /\ totalDirs = CountOverLevels(LevelPaths, TRUE)
        /\ \A k \in DOMAIN Rendered(out) : Matches(Rendered(out)[k])
        /\ Len(Rendered(out)) <= totalFiles + totalDirs

\* a recursive run with the pattern a* has returned: it listed . and ab,
\* counted ab and ab/a, and left out d, Ab and everything below d
C9_Witness ==
    /\ pc = "summary" /\ recursive /\ pattern = TokAStar
    /\ fs[2].kind = "dir"
    /\ totalFiles = 1 /\ totalDirs = 1
    /\ Len(LevelPaths) = 2

\* the regular files (links excluded) in and below directory node n
RegularBeneath(n) ==
    {c \in WalkEntries(fs, n) : fs[c].kind = "file"}

RECURSIVE SumSize(_)
SumSize(S) ==
    IF S = {} THEN 0
    ELSE LET c == CHOOSE x \in S : TRUE IN Size(c) + SumSize(S \ {c})

RECURSIVE SumEntrySize(_)
SumEntrySize(S) ==
    IF S = {} THEN 0
    ELSE LET c == CHOOSE x \in S : TRUE IN EntrySize(c) + SumEntrySize(S \ {c})

\* the directory totals the claim describes: for each entry of S the sizes
\* of the regular files below it, links skipped
RECURSIVE SumClaimedDirTotals(_)
SumClaimedDirTotals(S) ==
    IF S = {} THEN 0
    ELSE LET d == CHOOSE x \in S : TRUE IN
         SumSize(RegularBeneath(Resolve(fs, d))) + SumClaimedDirTotals(S \ {d})

RECURSIVE FileSizesOverLevels(_)
FileSizesOverLevels(levels) ==
    IF levels = <<>> THEN 0
    ELSE SumEntrySize(MatchingFiles(LevelNode(Head(levels))))
           + FileSizesOverLevels(Tail(levels))

\* how often the bytes of regular file n are in totalSizeShown (the sizes
\* are distinct powers of four and no file is added four times)
TimesCounted(n) == (totalSizeShown \div Size(n)) % 4

\* C10: the final totalSizeShown counts no file's bytes twice; with -t and
\* without -r it is the sizes of the matching non-directory entries of the
\* target level plus, for each matching directory, the sizes of the regular
\* files beneath it with links skipped; with -r it is the sizes of the
\* matching non-directory entries of all listed levels.
C10_SizeCountedOnce ==
    pc = "summary" =>
        /\ \A n \in Nodes : fs[n].kind = "file" => TimesCounted(n) <= 1
        /\ (showTotalSize /\ ~recursive) =>
              totalSizeShown =
                  SumEntrySize(MatchingFiles(LevelNode(LevelPaths[1])))
                    + SumClaimedDirTotals(MatchingDirs(LevelNode(LevelPaths[1])))
        /\ recursive => totalSizeShown = FileSizesOverLevels(LevelPaths)

\* positions of the headers in out
HeaderIdx ==
    SelectSeq([k \in 1..Len(out) |-> k], LAMBDA k : out[k].t = "header")

\* the levels the run has begun: 1 is the target, j + 1 the subdirectory of
\* the j-th header
Levels == 1..(Len(HeaderIdx) + 1)

\* what was written for level j: the events after its header (or from the
\* start, for the target) up to the next header
LevelEvents(j) ==
    LET first == IF j = 1 THEN 1 ELSE HeaderIdx[j - 1] + 1
        last == IF j = Len(HeaderIdx) + 1 THEN Len(out) ELSE HeaderIdx[j] - 1 IN
    SubSeq(out, first, last)

\* the entries drawn for level j, in order
LevelRendered(j) == Rendered(LevelEvents(j))

\* the sequences handed to displayMultiColumn
GridEntries ==
    {out[k].entries : k \in {x \in DOMAIN out : out[x].t = "grid"}}

\* the order the claim describes for one level
InClaimedOrder(s) ==
    \A a, b \in DOMAIN s :
        a < b =>
            /\ IsDirEntry(s[b]) => IsDirEntry(s[a])
            /\ (IsDirEntry(s[a]) /\ IsDirEntry(s[b])) =>
                  ~StrLess(toLower(Name(s[b])), toLower(Name(s[a])))
            /\ (~IsDirEntry(s[a]) /\ ~IsDirEntry(s[b])) =>
                  /\ categorizeFile(fs, s[a], 0) <= categorizeFile(fs, s[b], 0)
                  /\ categorizeFile(fs, s[a], 0) = categorizeFile(fs, s[b], 0) =>
                        ~StrLess(toLower(Name(s[b])), toLower(Name(s[a])))

\* C11: what is rendered for one level has all directories before all
\* files, the directories in case-insensitive name order, and the files in
\* the order of their category ordinals and, within one category, in
\* case-insensitive name order.
C11_LevelOrder ==
    /\ \A j \in Levels : InClaimedOrder(LevelRendered(j))
    /\ \A s \in GridEntries : InClaimedOrder(s)

\* a level was drawn with a directory first, then b.SH (Programming), then
\* Ab (Other), which a comparison by name alone would put before b.SH
C11_Witness ==
    \E j \in Levels :
        LET r == LevelRendered(j) IN
        \E a, b, c \in DOMAIN r :
            /\ a < b /\ b < c
            /\ IsDirEntry(r[a]) /\ r[b] = 7 /\ r[c] = 5
            /\ categorizeFile(fs, 7, 0) = Programming
            /\ categorizeFile(fs, 5, 0) = Other

\* the grids written so far
Grids == {out[k] : k \in {x \in DOMAIN out : out[x].t = "grid"}}

\* C12: whatever width >= 1 the terminal reports, displayMultiColumn works
\* with at least one column: the row computation never divides by zero (no
\* run ends in the arithmetic trap) and every entry handed to it is drawn.
C12_ColumnsAtLeastOne ==
    /\ exitStatus # "SIGFPE"
    /\ \A g \in Grids :
          g.wsCol >= 1 => Len(FlattenRows(g.rows)) = Len(g.entries)

\* the width displayMultiColumn works with for a reported ws_col, and the
\* claimed number of columns floor(W / 18)
GridWidth(g) == IF g.wsCol = 0 THEN 80 ELSE g.wsCol
GridColumns(g) == GridWidth(g) \div 18

\* ceil(n / c) for c >= 1: the least r with r * c >= n
CeilDiv(n, c) == CHOOSE r \in 0..n : r * c >= n /\ (r = 0 \/ (r - 1) * c < n)

\* C13: a grid of N entries on a width W with floor(W / 18) >= 1 has
\* exactly ceil(N / floor(W / 18)) rows; the cell at (row, col) holds the
\* entry at index row * columns + col, and is drawn exactly when that index
\* is below N, so every index 0..N-1 is drawn once and none beyond.
C13_RowMajorGrid ==
    \A g \in Grids :
        LET columns == GridColumns(g)
            N == Len(g.entries) IN
        columns >= 1 =>
            /\ Len(g.rows) = CeilDiv(N, columns)
            /\ \A row \in DOMAIN g.rows : \A k \in DOMAIN g.rows[row] : k <= columns
            /\ \A row \in 0..(Len(g.rows) - 1), col \in 0..(columns - 1) :
                  LET index == row * columns + col IN
                  /\ (index < N) <=> (col + 1 \in DOMAIN g.rows[row + 1])
                  /\ index < N => g.rows[row + 1][col + 1] = g.entries[index + 1]
            /\ Len(FlattenRows(g.rows)) = N

\* four entries were drawn in three columns: two rows, the last one with a
\* single cell
C13_Witness ==
    \E g \in Grids :
        /\ GridColumns(g) = 3 /\ Len(g.entries) = 4
        /\ Len(g.rows) = 2 /\ Len(g.rows[1]) = 3 /\ Len(g.rows[2]) = 1
        /\ g.rows[2][1] = g.entries[4]

\* C14: every run ends with exit status 0 or 1 and in no other way, also
\* when the target directory cannot be read and when a listed directory
\* holds an entry that is neither a directory nor a regular file.  (The
\* arithmetic trap of a narrow terminal, C12, is left out of this
\* statement.)
C14_ExitZeroOrOne ==
    (Exited /\ exitStatus # "SIGFPE") => exitStatus \in {"0", "1"}

\* the labels of the claim, in their order
UnitSequence == <<"KB", "MB", "GB", "TB", "PB", "EB", "ZB", "YB">>

\* position of a label in UnitSequence, 0 when it is not one of them
UnitPosition(u) ==
    IF \E k \in DOMAIN UnitSequence : UnitSequence[k] = u
    THEN CHOOSE k \in DOMAIN UnitSequence : UnitSequence[k] = u
    ELSE 0

\* the number k of divisions by 1024 that bring the exact byte count below
\* 1024
Divisions(d) == TopPos(d) - 1

\* b >= 1024
AtLeastOneKB(d) == TopPos(d) >= 2

\* b * 1024 < 2^64
ProductFits(d) == d[NumDigits] = 0 /\ d[NumDigits - 1] < TopDigitLimit

\* 2^60 - 64 <= b < 2^60: the counts whose conversion to double is 2^60
RoundsUpToEB(d) ==
    /\ d[7] = 0 /\ \A k \in 2..6 : d[k] = 1023
    /\ d[1] >= 960

\* C15 (as claimed): for b >= 1024 the unit is the k-th label of KB .. YB,
\* k the number of divisions by 1024 that bring b below 1024, and
\* multiplying b by 1024 always moves the label on by exactly one position.
C15_UnitAlwaysAdvances ==
    /\ \A n \in DOMAIN callRet :
          AtLeastOneKB(callRet[n].size) =>
              callRet[n].text.unit = UnitSequence[Divisions(callRet[n].size)]
    /\ (Len(callRet) = 2 /\ AtLeastOneKB(callRet[1].size)) =>
          /\ callRet[2].size = Times1024(callRet[1].size)
          /\ UnitPosition(callRet[2].text.unit)
               = UnitPosition(callRet[1].text.unit) + 1

\* C15 (amended): for 1024 <= b < 2^64 the unit is one of KB .. EB: the
\* k-th label, k the number of divisions by 1024 that bring b below 1024,
\* except that the counts from 2^60 - 64 to 2^60 - 1 are already labelled
\* EB; and multiplying b by 1024 moves the label on by exactly one position
\* whenever the product is below 2^64.
C15_UnitUpToEB ==
    /\ \A n \in DOMAIN callRet :
          LET b == callRet[n].size
              unit == callRet[n].text.unit IN
          /\ AtLeastOneKB(b) =>
                /\ UnitPosition(unit) \in 1..6
                /\ unit = IF RoundsUpToEB(b) THEN "EB" ELSE UnitSequence[Divisions(b)]
          /\ ~AtLeastOneKB(b) => unit = "B"
    /\ (Len(callRet) = 2 /\ AtLeastOneKB(callRet[1].size)
          /\ ProductFits(callRet[1].size)) =>
          /\ callRet[2].size = Times1024(callRet[1].size)
          /\ UnitPosition(callRet[2].text.unit)
               = UnitPosition(callRet[1].text.unit) + 1

\* 15 PB was formatted, then 15 EB, its product with 1024
C15_Witness ==
    /\ Len(callRet) = 2
    /\ callRet[1].size = MakeSize(5, 15, 0, 0)
    /\ callRet[1].text = [whole |-> 15, unit |-> "PB"]
    /\ callRet[2].size = MakeSize(6, 15, 0, 0)
    /\ callRet[2].text = [whole |-> 15, unit |-> "EB"]

\* the five extension tables in the order of the claim, with their category
ClaimedTables ==
    <<[exts |-> programmingExtensions, type |-> Programming],
      [exts |-> textExtensions, type |-> Text],
      [exts |-> videoExtensions, type |-> Video],
      [exts |-> pictureExtensions, type |-> Picture],
      [exts |-> compressedExtensions, type |-> Compressed]>>

\* the category the claim gives an entry: that of the first table holding
\* its lower-cased extension, else Executable for an owner-execute bit,
\* else Other
ClaimedCategory(e) ==
    LET ext == toLower(extension(e.name))
        hits == {k \in DOMAIN ClaimedTables : ext \in ClaimedTables[k].exts} IN
    IF hits # {}
    THEN ClaimedTables[CHOOSE k \in hits : \A j \in hits : k <= j].type
    ELSE IF e.ownerExec THEN Executable
    ELSE Other

Range(s) == {s[k] : k \in DOMAIN s}

\* one order for each set of entries: an arrangement of the set in the
\* claimed order, the same one wherever the same set is drawn
OrderOf(S) == CHOOSE s \in Perms(S) : InClaimedOrder(s)

\* C17: the order in which a level is drawn is a function of the set of
\* its entries alone (their names and categories), whatever order readdir
\* produced them in, also when two names differ only in the case of their
\* letters.
C17_OrderDeterministic ==
    \A j \in Levels : LevelRendered(j) = OrderOf(Range(LevelRendered(j)))

\* the paths of the subdirectories whose header was printed
ListedPaths == Range(HeaderPaths(out))

\* the paths below level path p that the claim says are listed: every
\* matching directory entry of a listed level, and so on below it
RECURSIVE MatchingBelow(_)
MatchingBelow(p) ==
    UNION {{Append(p, c)} \cup MatchingBelow(Append(p, c)) :
              c \in MatchingDirs(LevelNode(p))}

RECURSIVE CountOverPaths(_, _)
CountOverPaths(S, wantDirs) ==
    IF S = {} THEN 0
    ELSE LET p == CHOOSE x \in S : TRUE IN
         CountOverLevels(<<p>>, wantDirs) + CountOverPaths(S \ {p}, wantDirs)

DirsOf(p) == OrderOf(MatchingDirs(LevelNode(p)))

IndexIn(s, x) == CHOOSE k \in DOMAIN s : s[k] = x

\* the path listed next after the whole subtree of p: the next sibling of
\* p, or of its nearest ancestor that has one; <<>> when there is none
RECURSIVE NextSibling(_)
NextSibling(p) ==
    IF Len(p) = 1 THEN <<>>
    ELSE LET parent == SubSeq(p, 1, Len(p) - 1)
             sibs == DirsOf(parent)
             k == IndexIn(sibs, Last(p)) IN
         IF k < Len(sibs) THEN Append(parent, sibs[k + 1]) ELSE NextSibling(parent)

\* the path a depth-first walk in sorted order lists after p
DepthFirstNext(p) ==
    IF DirsOf(p) # <<>> THEN Append(p, DirsOf(p)[1]) ELSE NextSibling(p)

\* all entries of level j were handed to the renderer
LevelComplete(j) ==
    LET node == LevelNode(LevelPaths[j])
        all == MatchingDirs(node) \cup MatchingFiles(node)
        grids == {k \in DOMAIN LevelEvents(j) : LevelEvents(j)[k].t = "grid"} IN
    IF grids # {}
    THEN \A k \in grids : Range(LevelEvents(j)[k].entries) = all
    ELSE Range(LevelRendered(j)) = all

\* what lies between two headers is the rendering of the level of the
\* first one, and once a later header is out that rendering is complete;
\* the headers come in the order of a depth-first walk that takes the
\* subdirectories of each level in sorted order, and when the lister has
\* returned the walk is complete
LevelsDepthFirst ==
    recursive =>
        /\ \A j \in Levels :
              /\ \A k \in DOMAIN LevelEvents(j) :
                    LET e == LevelEvents(j)[k] IN
                    /\ e.t = "detail" => Parent(e.entry) = LevelNode(LevelPaths[j])
                    /\ e.t = "grid" => e.dir = LevelNode(LevelPaths[j])
              /\ Cardinality(Range(LevelRendered(j))) = Len(LevelRendered(j))
              /\ (j < Len(LevelPaths) \/ pc = "summary") => LevelComplete(j)
        /\ \A k \in 1..(Len(LevelPaths) - 1) :
              LevelPaths[k + 1] = DepthFirstNext(LevelPaths[k])
        /\ pc = "summary" => DepthFirstNext(Last(LevelPaths)) = <<>>

\* a nested call begins exactly when a header is written, the header holds
\* the path of that call, and the caller has rendered its level by then
HeaderWithCall ==
    LET called == Len(stack) >= 1 /\ Len(stack') = Len(stack) + 1
        headed == Len(out') = Len(out) + 1 /\ Last(out').t = "header" IN
    /\ called <=> headed
    /\ called =>
          /\ out' = Append(out, [t |-> "header", path |-> Last(stack').path])
          /\ Last(stack).listed /\ ~Last(stack').listed
          /\ SubSeq(Last(stack').path, 1, Len(Last(stack).path)) = Last(stack).path

LinkToAncestor == fs[4] = Entry("link", 1)

\* C20: a recursive listing lists each directory at most once, and a
\* recursive run over a tree with a symbolic link to one of its ancestors
\* ends like any other: with the summary printed and status 0.
C20_ListedOnceAndCompletes ==
    recursive =>
        /\ \A j, k \in DOMAIN LevelPaths :
              j # k => LevelNode(LevelPaths[j]) # LevelNode(LevelPaths[k])
        /\ (/\ Exited /\ LinkToAncestor /\ Matches(1) /\ Matches(4)
            /\ exitStatus # "SIGFPE"
            /\ \A n \in Nodes :
                  /\ fs[n].kind \notin {"xdir", "fifo"}
                  /\ fs[n].kind = "link" => fs[n].tgt # NoNode) =>
              (exitStatus = "0" /\ SummaryPrinted)

====
